---- MODULE Spec2Model ----
(***************************************************************************)
(* A model of the classes-intro exercise: the interactive test runner of   *)
(* testhelper.py (registry, listing, completer, prompt loop) and the       *)
(* Pulsar class of pulsar_solution.py (catalog lookup with its class-level *)
(* cache, and the frequency / frequency_derivative properties).            *)
(*                                                                         *)
(* Text is modelled by strings, Python's None by the empty sequence and a  *)
(* present value x by the one-element sequence <<x>>.                      *)
(***************************************************************************)
EXTENDS Integers, Sequences, FiniteSets, TLC

VARIABLES
    registered,   \* the functions passed to register_test so far, in call order
    TESTS,        \* testhelper.TESTS: the OrderedDict, as a sequence of items
    pc,           \* where the runner is: import, prompt, running, done, aborted, raised
    completer,    \* the TestsCompleter instance handed to readline
    query,        \* the last complete(text, state) call and what it returned
    consumed,     \* what the raw_input calls have delivered so far
    out,          \* the lines printed by print(), in order
    calls,        \* the invocations of registered callables made by test_main
    exc,          \* the exception that left test_main ("" when none)
    resource,     \* the table stored in the default catalog resource
    catalog,      \* Pulsar.catalog, the class attribute
    loads,        \* who triggered each Table.read, in order
    lookup,       \* the last Pulsar.from_catalog call and its outcome
    psr,          \* a Pulsar instance: its stored period and period_derivative
    last          \* the last property setter called on psr, with its argument

vars == <<registered, TESTS, pc, completer, query, consumed, out, calls, exc,
          resource, catalog, loads, lookup, psr, last>>

runnerVars == <<registered, TESTS, pc, completer, query, consumed, out, calls, exc>>
catalogVars == <<resource, catalog, loads, lookup>>
propertyVars == <<psr, last>>

None == <<>>
Some(x) == <<x>>

Max(a, b) == IF a >= b THEN a ELSE b

(***************************************************************************)
(* Bounds of the model.                                                    *)
(***************************************************************************)
MaxRegs == 3      \* register_test calls made while the module is imported
MaxReads == 2     \* raw_input calls answered in one run of test_main
MaxState == 2     \* the largest state index handed to complete()

(***************************************************************************)
(* String helpers of the Python runtime used by testhelper.py.             *)
(***************************************************************************)
StartsWith(s, p) == Len(p) <= Len(s) /\ SubSeq(s, 1, Len(p)) = p

\* str.partition(sep): <<head, sep, tail>> around the first occurrence of sep,
\* <<s, "", "">> when sep does not occur.
Partition(s, sep) ==
    LET hits == {i \in 1..(Len(s) - Len(sep) + 1) : SubSeq(s, i, i + Len(sep) - 1) = sep}
    IN  IF hits = {} THEN <<s, "", "">>
        ELSE LET i == CHOOSE k \in hits : \A j \in hits : k <= j
             IN  <<SubSeq(s, 1, i - 1), sep, SubSeq(s, i + Len(sep), Len(s))>>

IsLineBreak(c) == c \in {"\n", "\r"}

\* str.splitlines()[0] of a non-empty string: the text before the first line break.
FirstLine(s) ==
    LET breaks == {i \in 1..Len(s) : IsLineBreak(SubSeq(s, i, i))}
    IN  IF breaks = {} THEN s
        ELSE SubSeq(s, 1, (CHOOSE k \in breaks : \A j \in breaks : k <= j) - 1)

\* sep.join(lst)
RECURSIVE Join(_, _)
Join(lst, sep) ==
    IF lst = <<>> THEN ""
    ELSE IF Len(lst) = 1 THEN lst[1]
    ELSE lst[1] \o sep \o Join(Tail(lst), sep)

\* The whitespace-separated words of a text (str.split()), in order.
Words(s) ==
    LET starts == {i \in 1..Len(s) : /\ SubSeq(s, i, i) # " "
                                     /\ (i = 1 \/ SubSeq(s, i - 1, i - 1) = " ")}
        EndOf(i) == CHOOSE j \in i..Len(s) :
                        /\ \A k \in i..j : SubSeq(s, k, k) # " "
                        /\ (j = Len(s) \/ SubSeq(s, j + 1, j + 1) = " ")
        Nth(n) == CHOOSE i \in starts : Cardinality({j \in starts : j < i}) = n - 1
    IN  [n \in 1..Cardinality(starts) |-> SubSeq(s, Nth(n), EndOf(Nth(n)))]

WrapWidth == 70

\* textwrap.wrap(text): the words packed greedily into lines of at most
\* WrapWidth characters, one space between words; no line for an empty text.
RECURSIVE Fill(_, _, _)
Fill(words, line, width) ==
    IF words = <<>> THEN (IF line = "" THEN <<>> ELSE <<line>>)
    ELSE LET w == Head(words)
         IN  IF line = "" THEN Fill(Tail(words), w, width)
             ELSE IF Len(line) + 1 + Len(w) <= width
                  THEN Fill(Tail(words), line \o " " \o w, width)
                  ELSE <<line>> \o Fill(words, "", width)

Wrap(text) == Fill(Words(text), "", WrapWidth)

\* c * n
RECURSIVE Repeat(_, _)
Repeat(c, n) ==
    IF n <= 0 THEN ""
    ELSE LET half == Repeat(c, n \div 2)
         IN  half \o half \o (IF n % 2 = 1 THEN c ELSE "")

\* str.center(width, fill): the odd padding character goes to the left when
\* both the padding and the width are odd.
Center(s, width, fill) ==
    IF Len(s) >= width THEN s
    ELSE LET marg == width - Len(s)
             left == (marg \div 2) + (IF marg % 2 = 1 /\ width % 2 = 1 THEN 1 ELSE 0)
         IN  Repeat(fill, left) \o s \o Repeat(fill, marg - left)

\* repr() of a plain name as read by raw_input
Repr(s) == "'" \o s \o "'"

(***************************************************************************)
(* The registry: TESTS = collections.OrderedDict() and register_test.      *)
(***************************************************************************)
Keys(d) == [i \in 1..Len(d) |-> d[i].key]

HasKey(d, k) == \E i \in 1..Len(d) : d[i].key = k

\* OrderedDict.get(k, None)
Get(d, k) ==
    IF HasKey(d, k) THEN Some((d[CHOOSE i \in 1..Len(d) : d[i].key = k]).value)
    ELSE None

\* A faulty variant: the first registration under a name is kept
SetItemKeepFirst(d, k, v) ==
    IF HasKey(d, k) THEN d ELSE Append(d, [key |-> k, value |-> v])

\* OrderedDict.__setitem__: a new key goes to the end, a known key keeps its place.
SetItem(d, k, v) ==
    IF HasKey(d, k)
    THEN [i \in 1..Len(d) |-> IF d[i].key = k THEN [key |-> k, value |-> v] ELSE d[i]]
    ELSE Append(d, [key |-> k, value |-> v])

\* tname = f.__name__.partition('_')[2]
TestName(f) == Partition(f.name, "_")[3]

(***************************************************************************)
(* The functions a module under test may register.  A function is its      *)
(* __name__ and its __doc__ (None when it has no docstring).               *)
(***************************************************************************)
LongName == "test_" \o Repeat("x", 68)

Funcs ==
    { [name |-> "test_class", doc |-> Some("Check if there is a Pulsar class")],
      [name |-> "check_class", doc |-> None],
      [name |-> "test_class_attribute",
       doc |-> Some("Check that the Pulsar class now has a 'name' attribute\nIt defaults to None")],
      [name |-> "main", doc |-> Some("")],
      [name |-> LongName, doc |-> None] }

\* What the user may type at the prompt, and the prefixes readline may ask about.
Lines == {"class", "bogus", "", Repeat("x", 68)}
Texts == {"", "class", "class_", "x"}
States == (0 - 1)..MaxState

\* if test.__doc__:
Truthy(doc) == doc # None /\ doc[1] # ""

\* def register_test(f)
RegisterTest(tests, f) == SetItem(tests, TestName(f), f)

(***************************************************************************)
(* pprint_tests and pprint_list.                                           *)
(***************************************************************************)
DocLine(tname, test) == "    " \o tname \o " - " \o FirstLine(test.doc[1])

\* The generator print_documented_tests, run to exhaustion: the lines it
\* prints on the way and the names it yields.
RECURSIVE PrintDocumentedTests(_)
PrintDocumentedTests(items) ==
    IF items = <<>> THEN [printed |-> <<>>, yielded |-> <<>>]
    ELSE LET rest == PrintDocumentedTests(Tail(items))
             it == Head(items)
         IN  IF Truthy(it.value.doc)
             THEN [printed |-> <<DocLine(it.key, it.value)>> \o rest.printed,
                   yielded |-> rest.yielded]
             ELSE [printed |-> rest.printed, yielded |-> <<it.key>> \o rest.yielded]

\* pprint_list(lst, sep=", ", prefix=...): the lines it prints.
PprintList(lst, sep, prefix) ==
    LET wrapped == Wrap(Join(lst, sep))
    IN  [i \in 1..Len(wrapped) |-> prefix \o wrapped[i]]

\* A faulty variant: the list of undocumented names is printed before the documented lines
PprintTestsListFirst(tests) ==
    LET undoc == PrintDocumentedTests(tests)
    IN  PprintList(undoc.yielded, ", ", "    ") \o undoc.printed

\* pprint_tests(tests): join() drains the generator, which prints the documented
\* entries; the wrapped list of the yielded names is printed after that.
PprintTests(tests) ==
    LET undoc == PrintDocumentedTests(tests)
    IN  undoc.printed \o PprintList(undoc.yielded, ", ", "    ")

(***************************************************************************)
(* TestsCompleter.                                                         *)
(***************************************************************************)
\* TestsCompleter.__init__
NewCompleter(tests) == [tests |-> Keys(tests), matches |-> Keys(tests)]

\* lst[i] with Python's negative indices; None stands for the IndexError.
PyIndex(lst, i) ==
    IF 0 <= i /\ i < Len(lst) THEN Some(lst[i + 1])
    ELSE IF i < 0 /\ 0 - Len(lst) <= i THEN Some(lst[Len(lst) + i + 1])
    ELSE None

\* A faulty variant: only the names equal to the text match
MatchingExact(tests, text) == SelectSeq(tests, LAMBDA tname : tname = text)

\* [tname for tname in self.tests if tname.startswith(text)]
Matching(tests, text) == SelectSeq(tests, LAMBDA tname : StartsWith(tname, text))

\* A faulty variant: the matches are recomputed by every call
NewMatchesAlways(c, text, state) == Matching(c.tests, text)

\* if state == 0: self.matches = ...
NewMatches(c, text, state) == IF state = 0 THEN Matching(c.tests, text) ELSE c.matches

\* TestsCompleter.complete(text, state): the completer afterwards and the value returned
CompleteCall(c, text, state) ==
    LET m == NewMatches(c, text, state)
    IN  [completer |-> [c EXCEPT !.matches = m], result |-> PyIndex(m, state)]

(***************************************************************************)
(* test_main.                                                              *)
(***************************************************************************)
BannerWidth == 80

\* A faulty variant: the banner text is left-justified
BannerLeft(tname) ==
    LET text == " Running test " \o Repr(tname) \o " "
    IN  text \o Repeat("-", BannerWidth - Len(text))

Banner(tname) == Center(" Running test " \o Repr(tname) \o " ", BannerWidth, "-")

RetryMessage == "Invalid test name. Please try again"

NoQuery == [text |-> "", state |-> 0, result |-> None, zero |-> None, run |-> 0, n |-> 0]

RunnerInit ==
    /\ registered = <<>>
    /\ TESTS = <<>>
    /\ pc = "import"
    /\ completer = [tests |-> <<>>, matches |-> <<>>]
    /\ query = NoQuery
    /\ consumed = <<>>
    /\ out = <<>>
    /\ calls = <<>>
    /\ exc = ""

\* @TH.register_test on a function definition, while the module is imported
Register(f) ==
    /\ pc = "import"
    /\ Len(registered) < MaxRegs
    /\ registered' = Append(registered, f)
    /\ TESTS' = RegisterTest(TESTS, f)
    /\ UNCHANGED <<pc, completer, query, consumed, out, calls, exc>>
    /\ UNCHANGED <<catalogVars, propertyVars>>

\* test_main() up to its first raw_input: the completer is set up and the
\* list of tests is printed.  (setup also loads readline's history file and
\* registers its writing at exit; nothing modelled here reads the history.)
Start ==
    /\ pc = "import"
    /\ completer' = NewCompleter(TESTS)
    /\ out' = out \o <<"Available tests:">> \o PprintTests(TESTS)
    /\ pc' = "prompt"
    /\ UNCHANGED <<registered, TESTS, query, consumed, calls, exc>>
    /\ UNCHANGED <<catalogVars, propertyVars>>

\* readline asks the completer for a completion while raw_input waits
Complete(text, state) ==
    /\ pc = "prompt"
    /\ LET r == CompleteCall(completer, text, state)
       IN  /\ completer' = r.completer
           /\ query' = [text |-> text, state |-> state, result |-> r.result,
                        zero |-> IF state = 0 THEN Some(text) ELSE query.zero,
                        run |-> IF state = 0 THEN 1
                                ELSE IF query.run > 0 /\ query.text = text /\ state = query.run
                                     THEN query.run + 1 ELSE 0,
                        n |-> 1]
    /\ UNCHANGED <<registered, TESTS, pc, consumed, out, calls, exc>>
    /\ UNCHANGED <<catalogVars, propertyVars>>

\* A faulty variant: an unrecognized line is passed over without a message
DispatchSilent(tname) ==
    LET test == Get(TESTS, tname)
    IN  IF test = None
        THEN [out |-> <<>>, call |-> None, pc |-> "prompt"]
        ELSE [out |-> <<Banner(tname), "">>, call |-> test, pc |-> "running"]

\* What test_main does with a line that raw_input returned.
Dispatch(tname) ==
    LET test == Get(TESTS, tname)
    IN  IF test = None
        THEN [out |-> <<RetryMessage>>, call |-> None, pc |-> "prompt"]
        ELSE [out |-> <<Banner(tname), "">>, call |-> test, pc |-> "running"]

\* raw_input returns a line
ReadLine(tname) ==
    /\ pc = "prompt"
    /\ Len(consumed) < MaxReads
    /\ consumed' = Append(consumed, [ev |-> "line", text |-> tname])
    /\ LET d == Dispatch(tname)
       IN  /\ out' = out \o d.out
           /\ pc' = d.pc
           /\ calls' = IF d.call = None THEN calls
                       ELSE Append(calls, [f |-> d.call[1], args |-> <<>>,
                                           outpos |-> Len(out')])
    /\ UNCHANGED <<registered, TESTS, completer, query, exc>>
    /\ UNCHANGED <<catalogVars, propertyVars>>

\* A faulty variant: only the end of input is handled
CaughtEOFOnly == {"EOFError"}

\* except EOFError: ... except KeyboardInterrupt: ...
Caught == {"EOFError", "KeyboardInterrupt"}

\* What test_main does when raw_input raises: the two handlers print an empty
\* line and return.
OnRaise(e) ==
    IF e \in Caught
    THEN [out |-> <<"">>, pc |-> "aborted", exc |-> ""]
    ELSE [out |-> <<>>, pc |-> "raised", exc |-> e]

\* raw_input raises EOFError (end of input) or KeyboardInterrupt
ReadRaises(e) ==
    /\ pc = "prompt"
    /\ Len(consumed) < MaxReads
    /\ consumed' = Append(consumed, [ev |-> e, text |-> ""])
    /\ LET r == OnRaise(e)
       IN  /\ out' = out \o r.out
           /\ pc' = r.pc
           /\ exc' = r.exc
    /\ UNCHANGED <<registered, TESTS, completer, query, calls>>
    /\ UNCHANGED <<catalogVars, propertyVars>>

\* test() returns: test_main ends, printing nothing more
TestReturns ==
    /\ pc = "running"
    /\ pc' = "done"
    /\ UNCHANGED <<registered, TESTS, completer, query, consumed, out, calls, exc>>
    /\ UNCHANGED <<catalogVars, propertyVars>>

\* test() raises: nothing in test_main catches it
TestRaises ==
    /\ pc = "running"
    /\ pc' = "raised"
    /\ exc' = "Exception"
    /\ UNCHANGED <<registered, TESTS, completer, query, consumed, out, calls>>
    /\ UNCHANGED <<catalogVars, propertyVars>>

(***************************************************************************)
(* Floating-point numbers.  The quantities of pulsar_solution.py are       *)
(* binary floating-point values; each arithmetic operation rounds its      *)
(* exact result to the nearest representable value, ties to the even       *)
(* significand.  The model keeps Precision significand bits (binary64      *)
(* keeps 53) and does not bound the exponent.  A value is s * m * 2^e      *)
(* with 2^(Precision-1) <= m < 2^Precision, or zero.                       *)
(***************************************************************************)
Precision == 4

Zero == [s |-> 1, m |-> 0, e |-> 0]

BitLen(n) == CHOOSE k \in 1..30 : 2^(k - 1) <= n /\ n < 2^k

\* The value s * (n + t) * 2^e rounded to Precision bits, where n > 0 and t is
\* a fraction strictly between 0 and 1 when sticky holds and 0 otherwise.
Round(s, n, e, sticky) ==
    LET k == BitLen(n) - Precision
    IN  IF k <= 0 THEN [s |-> s, m |-> n * 2^(0 - k), e |-> e + k]
        ELSE LET q == n \div 2^k
                 r == n % 2^k
                 half == 2^(k - 1)
                 up == r > half \/ (r = half /\ (sticky \/ q % 2 = 1))
                 m == IF up THEN q + 1 ELSE q
             IN  IF m = 2^Precision
                 THEN [s |-> s, m |-> 2^(Precision - 1), e |-> e + k + 1]
                 ELSE [s |-> s, m |-> m, e |-> e + k]

\* The float of a small integer
FromInt(n) == IF n = 0 THEN Zero
              ELSE IF n < 0 THEN Round(0 - 1, 0 - n, 0, FALSE)
              ELSE Round(1, n, 0, FALSE)

\* -a
Neg(a) == IF a.m = 0 THEN a ELSE [a EXCEPT !.s = 0 - a.s]

\* a * b
Mul(a, b) == IF a.m = 0 \/ b.m = 0 THEN Zero
             ELSE Round(a.s * b.s, a.m * b.m, a.e + b.e, FALSE)

\* a / b for b # 0
Div(a, b) ==
    IF a.m = 0 THEN Zero
    ELSE LET n == a.m * 2^(Precision + 1)
         IN  Round(a.s * b.s, n \div b.m, a.e - b.e - (Precision + 1), n % b.m # 0)

(***************************************************************************)
(* class Pulsar.                                                           *)
(***************************************************************************)
\* Pulsar.__init__
NewPulsar(name, coords, period, period_derivative) ==
    [name |-> name, coords |-> coords, period |-> period,
     period_derivative |-> IF period_derivative = None THEN Zero ELSE period_derivative[1]]

\* the frequency property: 1 / self.period
Frequency(self) == Div(FromInt(1), self.period)

\* frequency.setter: self.period = 1 / freq
SetFrequencyTo(self, freq) == [self EXCEPT !.period = Div(FromInt(1), freq)]

\* the frequency_derivative property: -self.period_derivative / self.period**2
FrequencyDerivative(self) == Div(Neg(self.period_derivative), Mul(self.period, self.period))

\* A faulty variant: the setter divides by the squared period
SetFrequencyDerivativeByPeriod(self, fdot) ==
    [self EXCEPT !.period_derivative = Div(Neg(fdot), Mul(self.period, self.period))]

\* frequency_derivative.setter: self.period_derivative = -fdot / self.frequency**2
SetFrequencyDerivativeTo(self, fdot) ==
    [self EXCEPT !.period_derivative =
                     Div(Neg(fdot), Mul(Frequency(self), Frequency(self)))]

\* C.SkyCoord(ra=..., dec=..., frame='icrs')
SkyCoord(ra, dec) == [ra |-> ra, dec |-> dec, frame |-> "icrs"]

\* from_catalog_row(row, name=None)
FromCatalogRow(row, name) ==
    NewPulsar(IF name = None THEN row.NAME ELSE name[1],
              SkyCoord(row.RAJ, row.DECJ), row.P0, Some(row.P1))

\* A faulty variant: only the NAME column is searched
MatchingRowsByName(table, name) == SelectSeq(table, LAMBDA row : row.NAME = name)

\* np.where((catalog['NAME'] == name) | (catalog['PSRJ'] == name)); catalog[match]
MatchingRows(table, name) ==
    SelectSeq(table, LAMBDA row : row.NAME = name \/ row.PSRJ = name)

\* repr() of a unicode string: the identifiers are unicode literals
ReprUnicode(s) == "u'" \o s \o "'"

\* A faulty variant: the cached catalog is ignored
AlwaysRead(cat) == TRUE

\* if cls.catalog is None:
NeedsCatalog(cat) == cat = None

\* from_catalog(name), given the class's catalog and the table the default
\* resource holds: the catalog afterwards, whether it was read, and the outcome.
FromCatalogCall(cat, table, name) ==
    LET read == NeedsCatalog(cat)
        now == IF read THEN Some(table) ELSE cat
        rows == MatchingRows(now[1], name)
    IN  IF Len(rows) = 0
        THEN [catalog |-> now, read |-> read, raised |-> "ValueError",
              message |-> "Pulsar " \o ReprUnicode(name) \o " not found", result |-> None]
        ELSE [catalog |-> now, read |-> read, raised |-> "", message |-> "",
              result |-> Some(FromCatalogRow(rows[1], Some(name)))]

(***************************************************************************)
(* The catalog resource and the identifiers asked for.                     *)
(***************************************************************************)
MaxLookups == 2   \* from_catalog calls in one run
MaxLoads == 2     \* direct read_catalog calls in one run

CatRow(name, psrj, ra, dec, p0, p1) ==
    [NAME |-> name, PSRJ |-> psrj, RAJ |-> ra, DECJ |-> dec,
     P0 |-> FromInt(p0), P1 |-> FromInt(p1)]

CrabRow == CatRow("B0531+21", "J0534+2200", "05:34:31.9", "+22:00:52.1", 3, 1)
J1944Row == CatRow("J1944+2236", "J1944+2236", "19:44:00.9", "+22:36:27", 5, 0)
VelaRow == CatRow("B0833-45", "J0835-4510", "08:35:20.6", "-45:10:34.8", 7, 2)
\* a second row answering to the Crab's J name
TwinRow == CatRow("J0534+2200", "J0534+2200", "05:34:32", "+22:00:52", 6, 0)

Catalogs ==
    { <<>>,
      <<J1944Row>>,
      <<CrabRow, J1944Row, VelaRow>>,
      <<VelaRow, CrabRow, TwinRow>> }

Identifiers == {"B0531+21", "J0534+2200", "J1944+2236", "j1944+2236", "B0833-45"}

NoLookup == [n |-> 0, name |-> "", raised |-> "", message |-> "", result |-> None]

CatalogIdle == resource = <<>> /\ catalog = None /\ loads = <<>> /\ lookup = NoLookup

CatalogInit == resource \in Catalogs /\ catalog = None /\ loads = <<>> /\ lookup = NoLookup

\* Pulsar.from_catalog(name)
FromCatalog(name) ==
    /\ lookup.n < MaxLookups
    /\ LET r == FromCatalogCall(catalog, resource, name)
       IN  /\ catalog' = r.catalog
           /\ loads' = IF r.read THEN Append(loads, "from_catalog") ELSE loads
           /\ lookup' = [n |-> lookup.n + 1, name |-> name, raised |-> r.raised,
                         message |-> r.message, result |-> r.result]
    /\ UNCHANGED resource
    /\ UNCHANGED <<runnerVars, propertyVars>>

\* Pulsar.read_catalog(), called directly as test_full does
ReadCatalog ==
    /\ Len(SelectSeq(loads, LAMBDA w : w = "read_catalog")) < MaxLoads
    /\ catalog' = Some(resource)
    /\ loads' = Append(loads, "read_catalog")
    /\ UNCHANGED <<resource, lookup>>
    /\ UNCHANGED <<runnerVars, propertyVars>>

(***************************************************************************)
(* A Pulsar instance and its property setters.                             *)
(***************************************************************************)
MantissaRange == (2^(Precision - 1))..(2^Precision - 1)

\* The values handed to the setters: every significand, both signs
Inputs == {[s |-> sg, m |-> mt, e |-> 0 - (Precision - 1)] : sg \in {0 - 1, 1}, mt \in MantissaRange}

CrabCoords == SkyCoord("05h34m31.97s", "+22d00m52.1s")

NoSetter == [op |-> "", arg |-> Zero, samePeriod |-> TRUE]

PropertyIdle == psr = NewPulsar("Crab", CrabCoords, FromInt(1), None) /\ last = NoSetter

\* make_crab(): Pulsar(name, coords, period), no period derivative given
PropertyInit ==
    /\ \E period \in {x \in Inputs : x.s = 1} : psr = NewPulsar("Crab", CrabCoords, period, None)
    /\ last = NoSetter

\* psr.frequency = freq, for a non-zero freq
SetFrequency(freq) ==
    /\ psr' = SetFrequencyTo(psr, freq)
    /\ last' = [op |-> "frequency", arg |-> freq, samePeriod |-> psr'.period = psr.period]
    /\ UNCHANGED <<runnerVars, catalogVars>>

\* psr.frequency_derivative = fdot
SetFrequencyDerivative(fdot) ==
    /\ psr' = SetFrequencyDerivativeTo(psr, fdot)
    /\ last' = [op |-> "frequency_derivative", arg |-> fdot,
                samePeriod |-> psr'.period = psr.period]
    /\ UNCHANGED <<runnerVars, catalogVars>>

(***************************************************************************)
(* The specifications: the test runner, the completer under readline, the  *)
(* catalog lookups, and the property setters.                              *)
(***************************************************************************)
Init == RunnerInit /\ CatalogIdle /\ PropertyIdle

Next ==
    \/ \E f \in Funcs : Register(f)
    \/ Start
    \/ \E tname \in Lines : ReadLine(tname)
    \/ \E e \in {"EOFError", "KeyboardInterrupt"} : ReadRaises(e)
    \/ TestReturns
    \/ TestRaises

Spec == Init /\ [][Next]_vars

NextCompleter ==
    \/ \E f \in Funcs : Register(f)
    \/ Start
    \/ \E text \in Texts, state \in States : Complete(text, state)

SpecCompleter == Init /\ [][NextCompleter]_vars

InitCatalog == RunnerInit /\ CatalogInit /\ PropertyIdle

NextCatalog ==
    \/ \E name \in Identifiers : FromCatalog(name)
    \/ ReadCatalog

SpecCatalog == InitCatalog /\ [][NextCatalog]_vars

InitProperty == RunnerInit /\ CatalogIdle /\ PropertyInit

NextProperty ==
    \/ \E freq \in Inputs : SetFrequency(freq)
    \/ \E fdot \in Inputs \cup {Zero} : SetFrequencyDerivative(fdot)

SpecProperty == InitProperty /\ [][NextProperty]_vars

(***************************************************************************)
(* What the registrations made so far amount to, read off the history of   *)
(* register_test calls alone.                                              *)
(***************************************************************************)
\* The part of a function's name after its first underscore (nothing when
\* the name has no underscore).
NameAfterUnderscore(n) ==
    IF \E k \in 1..Len(n) : SubSeq(n, k, k) = "_"
    THEN LET k == CHOOSE i \in 1..Len(n) :
                      /\ SubSeq(n, i, i) = "_"
                      /\ \A j \in 1..(i - 1) : SubSeq(n, j, j) # "_"
         IN  SubSeq(n, k + 1, Len(n))
    ELSE ""

RegName(i) == NameAfterUnderscore(registered[i].name)

\* The n-th smallest element of a set of numbers, as a sequence.
Ascending(S) ==
    [n \in 1..Cardinality(S) |-> CHOOSE i \in S : Cardinality({j \in S : j < i}) = n - 1]

\* The last function registered under the name of registration i.
LastUnder(name) ==
    registered[CHOOSE i \in 1..Len(registered) :
                   /\ RegName(i) = name
                   /\ \A j \in (i + 1)..Len(registered) : RegName(j) # name]

\* The registrations that introduced a new name, in registration order.
FirstRegs == Ascending({i \in 1..Len(registered) : \A j \in 1..(i - 1) : RegName(j) # RegName(i)})

Documented(i) == LET d == LastUnder(RegName(i)).doc IN d # None /\ d[1] # ""

DocumentedNames ==
    LET idx == SelectSeq(FirstRegs, Documented) IN [k \in 1..Len(idx) |-> RegName(idx[k])]

UndocumentedNames ==
    LET idx == SelectSeq(FirstRegs, LAMBDA i : ~Documented(i))
    IN  [k \in 1..Len(idx) |-> RegName(idx[k])]

EntryNames == [k \in 1..Len(FirstRegs) |-> RegName(FirstRegs[k])]

IsRegisteredName(t) == \E i \in 1..Len(registered) : RegName(i) = t

Range(f) == {f[i] : i \in DOMAIN f}

\* C7: after any sequence of register_test calls, TESTS holds exactly the
\* registered names, once each, and maps each name to the function of the last
\* registration made under it; the name of a registration is the part of the
\* function's name after its first underscore.
C7_LastRegistrationWins ==
    /\ \A i \in 1..Len(registered) : Get(TESTS, RegName(i)) = Some(LastUnder(RegName(i)))
    /\ Range(Keys(TESTS)) = {RegName(i) : i \in 1..Len(registered)}
    /\ Len(TESTS) = Cardinality(Range(Keys(TESTS)))

\* Two different functions were registered under one name.
C7_Witness ==
    \E i, j \in 1..Len(registered) :
        /\ i < j
        /\ RegName(i) = RegName(j)
        /\ registered[i] # registered[j]
        /\ Get(TESTS, RegName(i)) = Some(registered[j])

StripTrailingSpace(s) ==
    IF s # "" /\ SubSeq(s, Len(s), Len(s)) = " " THEN SubSeq(s, 1, Len(s) - 1) ELSE s

\* The listing as test_main has just printed it.
ListingShown == pc = "prompt" /\ consumed = <<>>

\* C6: pprint_tests prints one line per documented entry, in registration
\* order, and only then the names of the entries lacking a description, grouped
\* in registration order on lines of at most WrapWidth characters.
C6_ListingOrder ==
    ListingShown =>
        LET listing == Tail(out)
            nd == Len(DocumentedNames)
            group == [k \in 1..(Len(listing) - nd) |-> listing[nd + k]]
        IN  /\ Len(listing) >= nd
            /\ \A k \in 1..nd :
                   StartsWith(listing[k], "    " \o DocumentedNames[k] \o " - ")
            /\ \A k \in 1..Len(group) :
                   /\ StartsWith(group[k], "    ")
                   /\ Len(group[k]) <= 4 + WrapWidth
            /\ Join([k \in 1..Len(group) |-> SubSeq(group[k], 5, Len(group[k]))], " ")
                   = StripTrailingSpace(Join(UndocumentedNames, ", "))

\* An undocumented entry was registered before a documented one, and the
\* undocumented names took more than one line.
C6_Witness ==
    /\ ListingShown
    /\ Len(DocumentedNames) >= 1
    /\ Len(UndocumentedNames) >= 2
    /\ ~Documented(1)
    /\ Len(out) >= 1 + Len(DocumentedNames) + 2

(***************************************************************************)
(* The prompt loop.                                                        *)
(***************************************************************************)
IsLine(i) == consumed[i].ev = "line"
Recognized(i) == IsLine(i) /\ IsRegisteredName(consumed[i].text)
Unrecognized(i) == IsLine(i) /\ ~IsRegisteredName(consumed[i].text)

RetryLines == {i \in 1..Len(out) : out[i] = RetryMessage}

\* C1: one retry message is printed for each unrecognized line; the first
\* line that is a registered name is the last line read, and the callable
\* registered under it is then invoked once, with no arguments, after all the
\* retry messages, and it is the only callable invoked.
C1_RetryThenRunOnce ==
    /\ Cardinality(RetryLines) = Cardinality({i \in 1..Len(consumed) : Unrecognized(i)})
    /\ (\A i \in 1..Len(consumed) : ~Recognized(i)) => calls = <<>>
    /\ \A i \in 1..Len(consumed) :
           Recognized(i) =>
               /\ i = Len(consumed)
               /\ \A j \in 1..(i - 1) : Unrecognized(j)
               /\ Cardinality(RetryLines) = i - 1
               /\ Len(calls) = 1
               /\ calls[1].f = LastUnder(consumed[i].text)
               /\ calls[1].args = <<>>
               /\ \A r \in RetryLines : r < calls[1].outpos

\* An unrecognized line, then a registered name, with another test registered too.
C1_Witness ==
    /\ pc = "done"
    /\ Len(consumed) >= 2
    /\ Unrecognized(1)
    /\ Recognized(Len(consumed))
    /\ Len(TESTS) >= 2

\* C2: when raw_input raises EOFError or KeyboardInterrupt, at the first
\* prompt or after unrecognized lines, test_main returns: no exception leaves
\* it and no registered callable has been invoked.
C2_SilentAbort ==
    (consumed # <<>> /\ consumed[Len(consumed)].ev \in {"EOFError", "KeyboardInterrupt"}) =>
        /\ pc = "aborted"
        /\ exc = ""
        /\ calls = <<>>

\* An interrupt after an unrecognized line.
C2_Witness ==
    /\ Len(consumed) >= 2
    /\ Unrecognized(1)
    /\ consumed[Len(consumed)].ev = "KeyboardInterrupt"
    /\ TESTS # <<>>

Contains(s, sub) == \E i \in 1..(Len(s) - Len(sub) + 1) : SubSeq(s, i, i + Len(sub) - 1) = sub

\* The banner text between dashes, as many on the left as on the right (one
\* more on either side when the padding is odd), BannerWidth wide in all
\* unless the text is wider.
IsCenteredBanner(line, tname) ==
    LET text == " Running test '" \o tname \o "' "
        pad == Max(0, BannerWidth - Len(text))
    IN  \E l \in {pad \div 2, pad - (pad \div 2)} :
            line = Repeat("-", l) \o text \o Repeat("-", pad - l)

\* C3 as stated: a banner with the chosen name is printed before the callable
\* runs and again after it has finished.  (Any line carrying the name counts
\* as the banner printed afterwards.)
C3_BannerBeforeAndAfter ==
    pc = "done" =>
        LET tname == consumed[Len(consumed)].text
        IN  /\ \E i \in 1..calls[1].outpos : IsCenteredBanner(out[i], tname)
            /\ \E i \in (calls[1].outpos + 1)..Len(out) : Contains(out[i], tname)

\* C3, amended: the centered banner with the chosen name, then an empty line,
\* are the last things printed before the callable runs, and test_main prints
\* nothing once the callable has finished.
C3_BannerBeforeOnly ==
    calls # <<>> =>
        LET tname == consumed[Len(consumed)].text
            at == calls[1].outpos
        IN  /\ at >= 2
            /\ IsCenteredBanner(out[at - 1], tname)
            /\ out[at] = ""
            /\ Len(out) = at

\* The chosen test has run to its end.
C3_Witness ==
    /\ pc = "done"
    /\ calls # <<>>
    /\ consumed[Len(consumed)].text = "class"

(***************************************************************************)
(* The completer.                                                          *)
(***************************************************************************)
MatchesOf(text) == SelectSeq(EntryNames, LAMBDA n : StartsWith(n, text))

\* C4: called with state 0, 1, 2, ... and one prefix, complete returns the
\* registered names starting with the prefix one by one in registration order,
\* and None from the number of such names on.
C4_SuccessiveMatches ==
    query.run > 0 =>
        LET i == query.run - 1
            m == MatchesOf(query.text)
        IN  /\ query.state = i
            /\ (i < Len(m) => query.result = Some(m[i + 1]))
            /\ (i >= Len(m) => query.result = None)

\* The third call of a run finds the two matches exhausted.
C4_Witness ==
    /\ query.run = 3
    /\ Len(MatchesOf(query.text)) = 2
    /\ Len(EntryNames) = 3
    /\ query.result = None

\* C5 as stated: whatever the sequence of calls, a name returned is one of the
\* matches of the prefix passed in that call, never one of the matches of a
\* prefix queried before.  (Stated for the calls that follow a query and pass an
\* index that is not negative, which is all the claim needs to fail.)
C5_FromOwnPrefix ==
    (query.n > 0 /\ query.zero # None /\ query.state >= 0 /\ query.result # None) =>
        query.result[1] \in Range(MatchesOf(query.text))

\* The matches a call draws from: those of the prefix of the latest call with
\* state 0, all the names before any such call.
Basis == IF query.zero = None THEN EntryNames ELSE MatchesOf(query.zero[1])

\* C5, amended: the matches are recomputed by every call with state 0 and by
\* no other; a name returned is one of the matches of the prefix passed in the
\* latest call with state 0 (of all the names before any such call).
C5_FromLatestStateZeroPrefix ==
    query.n > 0 =>
        /\ completer.matches = Basis
        /\ (query.state = 0 => query.zero = Some(query.text))
        /\ (query.result # None => query.result[1] \in Range(Basis))
        /\ (query.result = None =>
               (query.state >= Len(Basis) \/ query.state < 0 - Len(Basis)))

\* A call with a new prefix and a state other than 0 returned a match of the
\* prefix queried before.
C5_Witness ==
    /\ query.n > 0
    /\ query.zero # None
    /\ query.zero[1] # query.text
    /\ query.result # None
    /\ ~StartsWith(query.result[1], query.text)

(***************************************************************************)
(* Catalog lookups.                                                        *)
(***************************************************************************)
\* The rows of the loaded catalog that carry the identifier asked for last.
Hits == {i \in 1..Len(resource) :
            resource[i].NAME = lookup.name \/ resource[i].PSRJ = lookup.name}

\* C8: from_catalog fails with the 'not found' error, which carries the
\* identifier asked for, exactly when no row of the loaded catalog has the
\* identifier in its NAME or PSRJ column; when exactly one row has it, the
\* Pulsar returned has the identifier as its name and that row's coordinates,
\* period and period derivative.
C8_LookupOutcome ==
    lookup.n > 0 =>
        /\ catalog = Some(resource)
        /\ (lookup.raised = "ValueError") <=> (Hits = {})
        /\ lookup.raised \in {"", "ValueError"}
        /\ (lookup.raised = "ValueError") =>
               /\ lookup.result = None
               /\ Contains(lookup.message, lookup.name)
               /\ Contains(lookup.message, "not found")
        /\ (lookup.raised = "") => lookup.result # None
        /\ \A i \in Hits :
               Hits = {i} =>
                   LET row == resource[i]
                       p == lookup.result[1]
                   IN  /\ p.name = lookup.name
                       /\ p.name \in {row.NAME, row.PSRJ}
                       /\ p.coords.ra = row.RAJ
                       /\ p.coords.dec = row.DECJ
                       /\ p.period = row.P0
                       /\ p.period_derivative = row.P1

\* A pulsar found by its alternate identifier alone, in a catalog of several rows.
C8_Witness ==
    /\ lookup.n > 0
    /\ lookup.raised = ""
    /\ Len(resource) >= 3
    /\ \E i \in Hits : Hits = {i} /\ resource[i].NAME # lookup.name

FromCatalogLoads == {i \in 1..Len(loads) : loads[i] = "from_catalog"}

\* C9: over the from_catalog calls of a run, failed ones included, the catalog
\* is read at most once by from_catalog, namely by a call that found no catalog
\* cached (so before any other read); after any call the catalog of the default
\* resource is the one cached at class scope.
C9_LoadedOnce ==
    /\ Cardinality(FromCatalogLoads) <= 1
    /\ FromCatalogLoads \subseteq {1}
    /\ lookup.n > 0 => (catalog = Some(resource) /\ loads # <<>>)
    /\ catalog = None <=> loads = <<>>

\* Two from_catalog calls, the last one failing, and one read in all.
C9_Witness ==
    /\ lookup.n >= 2
    /\ lookup.raised = "ValueError"
    /\ loads = <<"from_catalog">>
    /\ resource # <<>>

(***************************************************************************)
(* The property setters.                                                   *)
(***************************************************************************)
\* |x - y| <= k * 2^(-Precision) * |y|: x is y up to k rounding errors.
Close(x, y, k) ==
    IF x.m = 0 \/ y.m = 0 THEN x.m = y.m
    ELSE /\ x.s = y.s
         /\ x.e - y.e \in {0 - 1, 0, 1}
         /\ LET e0 == IF x.e < y.e THEN x.e ELSE y.e
                X == x.m * 2^(x.e - e0)
                Y == y.m * 2^(y.e - e0)
                d == IF X >= Y THEN X - Y ELSE Y - X
            IN  d * 2^Precision <= k * Y

\* |x - s * n * 2^e| <= k * 2^(-Precision) * n * 2^e, for an exact value s * n * 2^e
CloseToExact(x, s, n, e, k) ==
    IF n = 0 \/ x.m = 0 THEN n = 0 /\ x.m = 0
    ELSE /\ x.s = s
         /\ x.e - e \in 0..(3 * Precision)
         /\ LET X == x.m * 2^(x.e - e)
                d == IF X >= n THEN X - n ELSE n - X
            IN  d * 2^Precision <= k * n

\* C10 as stated: after frequency = f, reading frequency returns f; after
\* frequency_derivative = d, the stored period derivative is -d * period^2,
\* reading frequency_derivative returns d, and the period is as before.
\* (Stated for the positive frequencies, which is all the claim needs to fail.)
C10_ExactRoundTrip ==
    /\ (last.op = "frequency" /\ last.arg.s = 1) => Frequency(psr) = last.arg
    /\ last.op = "frequency_derivative" =>
           /\ FrequencyDerivative(psr) = last.arg
           /\ last.samePeriod

\* C10, amended: the setters store the rounded quotients 1/f and
\* -d / frequency^2, so reading back returns f within 3 and d within 8 rounding
\* errors, and the stored period derivative is -d * period^2 within 8 rounding
\* errors; frequency_derivative's setter leaves the period as it was.
C10_RoundTripUpToRounding ==
    /\ last.op = "frequency" =>
           /\ psr.period.m # 0
           /\ Close(Frequency(psr), last.arg, 3)
    /\ last.op = "frequency_derivative" =>
           /\ Close(FrequencyDerivative(psr), last.arg, 8)
           /\ CloseToExact(psr.period_derivative, 0 - (last.arg.s * 1),
                           last.arg.m * psr.period.m * psr.period.m,
                           last.arg.e + 2 * psr.period.e, 8)
           /\ last.samePeriod

\* A derivative was set on a pulsar whose period an earlier frequency setter
\* had rewritten, and reading it back does not return the value set.
C10_Witness ==
    /\ last.op = "frequency_derivative"
    /\ last.arg.m # 0
    /\ psr.period \notin Inputs
    /\ FrequencyDerivative(psr) # last.arg

====
